---- MODULE Spec2Model ----
(***************************************************************************)
(* Model of the Network-Speed-Test client (client.py) and server           *)
(* (server.py): the wire codec, the discovery listener, the TCP and UDP    *)
(* transfer workers and the client orchestrator.                           *)
(*                                                                         *)
(* Datagrams are sequences of bytes (0..255).  struct.pack / struct.unpack *)
(* are modelled byte by byte, big-endian.  The 32-bit magic cookie does    *)
(* not fit a TLC integer, so it is kept as its four bytes.                 *)
(***************************************************************************)
EXTENDS Integers, Sequences, FiniteSets, TLC

\* ------------------------------------------------------------------ bounds
MaxDatagrams == 3      \* datagrams delivered to the discovery listener
MaxTimeouts  == 2      \* socket timeouts of the discovery listener
MaxUdpRequests == 2    \* datagrams received by start_udp_server
MaxUdpArrivals == 4    \* datagrams received by one initiate_udp_test worker
MaxIdleRetries == 1    \* receive timeouts that do not yet end the UDP transfer
MaxConnections == 3    \* largest connection count entered by the user
MaxTcpAccepts == 3     \* connections accepted by start_tcp_server
MaxOffers == 2         \* Offers broadcast by udp_offer_sender
MaxServed == 2         \* connections, and datagrams, the servers get beside the broadcaster

\* --------------------------------------------------------------- constants
MAGIC_COOKIE    == <<171, 205, 220, 186>>     \* 0xabcddcba, big-endian
OFFER_TYPE      == 2
REQUEST_TYPE    == 3
PAYLOAD_TYPE    == 4
SERVER_UDP_PORT == 15000
SERVER_TCP_PORT == 16000

\* ------------------------------------------------------------- wire codec
\* big-endian encoding of n on w bytes (struct formats B, H, Q)
RECURSIVE BE(_, _)
BE(n, w) == IF w = 0 THEN <<>> ELSE BE(n \div 256, w - 1) \o <<n % 256>>

\* big-endian decoding of a byte sequence
RECURSIVE FromBE(_)
FromBE(s) == IF Len(s) = 0 THEN 0
             ELSE 256 * FromBE(SubSeq(s, 1, Len(s) - 1)) + s[Len(s)]

pack_IBHH_swapped(cookie, type, udp_port, tcp_port) ==
    cookie \o BE(type, 1) \o BE(tcp_port, 2) \o BE(udp_port, 2)

\* struct.pack('!IBHH', cookie, type, udp_port, tcp_port)
pack_IBHH(cookie, type, udp_port, tcp_port) ==
    cookie \o BE(type, 1) \o BE(udp_port, 2) \o BE(tcp_port, 2)

unpack_IBHH_swapped(data) ==
    IF Len(data) # 9 THEN [error |-> TRUE]
    ELSE [error           |-> FALSE,
          magic_cookie    |-> SubSeq(data, 1, 4),
          message_type    |-> FromBE(SubSeq(data, 5, 5)),
          server_udp_port |-> FromBE(SubSeq(data, 8, 9)),
          server_tcp_port |-> FromBE(SubSeq(data, 6, 7))]

\* struct.unpack('!IBHH', data): struct.error unless data is exactly 9 bytes
unpack_IBHH(data) ==
    IF Len(data) # 9 THEN [error |-> TRUE]
    ELSE [error           |-> FALSE,
          magic_cookie    |-> SubSeq(data, 1, 4),
          message_type    |-> FromBE(SubSeq(data, 5, 5)),
          server_udp_port |-> FromBE(SubSeq(data, 6, 7)),
          server_tcp_port |-> FromBE(SubSeq(data, 8, 9))]

\* the Offer the broadcaster builds once before its loop
offer_message == pack_IBHH(MAGIC_COOKIE, OFFER_TYPE, SERVER_UDP_PORT, SERVER_TCP_PORT)

\* struct.pack('!IBQ', cookie, type, size): the 13-byte Request
pack_IBQ(cookie, type, size) == cookie \o BE(type, 1) \o BE(size, 8)

\* struct.unpack('!IBQ', data), called on 13-byte data only
unpack_IBQ(data) ==
    [magic_cookie |-> SubSeq(data, 1, 4),
     message_type |-> FromBE(SubSeq(data, 5, 5)),
     file_size    |-> FromBE(SubSeq(data, 6, 13))]

\* struct.pack('!IBQQ', cookie, type, total, index): the 21-byte Payload header
pack_IBQQ(cookie, type, total, index) ==
    cookie \o BE(type, 1) \o BE(total, 8) \o BE(index, 8)

\* struct.unpack('!IBQQ', data[:21]), called on data of 21 bytes or more
unpack_IBQQ_swapped(data) ==
    [magic_cookie        |-> SubSeq(data, 1, 4),
     message_type        |-> FromBE(SubSeq(data, 5, 5)),
     total_segment_count |-> FromBE(SubSeq(data, 14, 21)),
     segment_index       |-> FromBE(SubSeq(data, 6, 13))]

unpack_IBQQ(data) ==
    [magic_cookie        |-> SubSeq(data, 1, 4),
     message_type        |-> FromBE(SubSeq(data, 5, 5)),
     total_segment_count |-> FromBE(SubSeq(data, 6, 13)),
     segment_index       |-> FromBE(SubSeq(data, 14, 21))]

Min(a, b) == IF a < b THEN a ELSE b

\* chunk_size = 1024 in handle_tcp_connection, handle_udp_connection and
\* initiate_tcp_test
chunk_size == 1024

\* --------------------------------------------------------------- variables
VARIABLES
    lfo_pc,          \* listen_for_offers: "start", "WAITING", "DONE", "raised"
    lfo_sock,        \* its udp_socket: "open" or "closed"
    lfo_closed_use,  \* TRUE once a method of the closed socket was called
    lfo_result,      \* the returned tuple, <<>> before the return
    lfo_log,         \* datagrams recvfrom has returned, in order
    lfo_timeouts,    \* socket.timeout exceptions caught so far
    us_loop,         \* start_udp_server: "running", or "stopped" after an exception
    us_threads,      \* the handle_udp_connection threads started, in order
    uc_pc,                 \* initiate_udp_test: "start", "recv", "finished", "raised"
    uc_sock,               \* its udp_socket: "open" or "closed"
    uc_request,            \* the Request it has sent, <<>> before
    uc_segment_size,       \* segment_size
    received_segments,     \* received_segments
    total_segment_count,   \* total_segment_count
    uc_last,               \* the datagram returned by the latest recvfrom
    uc_nrecv,              \* number of datagrams recvfrom has returned
    uc_log,                \* per datagram received: the chunk index of a Payload, -1 for any other
    uc_retries,            \* receive timeouts that did not end the loop
    uc_exit,               \* how the loop was left: "none", "complete", "idle", "error"
    success_rate,          \* [num, den]: the rate is num / den; <<>> before it is computed
    tc_pc,                 \* initiate_tcp_test: "start", "read", "finished", "raised"
    tc_sock,               \* its tcp_socket: "open" or "closed"
    tc_segment_size,       \* segment_size
    bytes_receive,         \* bytes_receive
    tcp_c2s,               \* bytes sent by the client and not yet read by the server
    tcp_s2c,               \* number of bytes (all b'a') sent by the server, not yet read
    th_pc,                 \* handle_tcp_connection: "idle", "recv", "send", "returned"
    th_sock,               \* its client_socket: "open" or "closed"
    file_size_bytes,       \* file_size_bytes
    total_bytes_sent,      \* total_bytes_sent
    th_writes,             \* lengths of the chunks passed to sendall, in order
    th_result,             \* "none", "True", "False"
    th_error,              \* TRUE when the handler caught an exception
    orch_pc,               \* initiate_speed_test: "start", "spawn_tcp", "spawn_udp", "join", "done"
    tcp_connections,       \* tcp_connections
    udp_connections,       \* udp_connections
    threads,               \* tcp_threads + udp_threads: [kind, state] of each started thread
    orch_joined,           \* number of threads whose join() has returned
    rt_pc,                 \* Offer codec run: "idle", "decoded", "reencoded", "encoded", "redecoded"
    rt_bytes,              \* the bytes given to unpack
    rt_fields,             \* the four fields: unpack's result, or pack's arguments
    rt_out,                \* the bytes pack returned
    rt_back,               \* the fields unpack returned for rt_out
    main_pc,               \* client main: "input", "call", "returned", "exited"
    main_inputs,           \* the lines typed at the prompts so far
    params,                \* the values get_user_input has accepted so far
    worker_segment,        \* worker_segment[w]: segment_size computed by thread w, -1 before
    \* start_tcp_server and its handler threads, src/server.py 56-107
    ts_loop,         \* the accept loop: "accepting", "stopped"
    ts_handlers,     \* one record per accepted connection, in accept order
    \* several initiate_udp_test workers at once, src/client.py 137-197
    uw,              \* uw[a]: the worker whose socket has address a
    \* udp_offer_sender, src/server.py 38-53
    bc_pc,           \* "start", "send", "sleep", "stopped"
    bc_offer,        \* offer_message, <<>> before line 46
    bc_sent,         \* the sendto calls that succeeded: [data, to, at]
    bc_time,         \* seconds slept so far
    bc_failed,       \* a sendto has raised
    bc_snapshot,     \* <<TCP connections, UDP datagrams>> accepted when sendto raised
    us_sent          \* us_sent[h]: datagrams thread h has sent on the server's UDP socket, in order

lfo_vars == <<lfo_pc, lfo_sock, lfo_closed_use, lfo_result, lfo_log, lfo_timeouts>>

us_vars == <<us_loop, us_threads, us_sent>>

uc_vars == <<uc_pc, uc_sock, uc_request, uc_segment_size, received_segments,
             total_segment_count, uc_last, uc_nrecv, uc_log, uc_retries, uc_exit, success_rate>>

tcp_vars == <<tc_pc, tc_sock, tc_segment_size, bytes_receive, tcp_c2s, tcp_s2c,
              th_pc, th_sock, file_size_bytes, total_bytes_sent, th_writes,
              th_result, th_error>>

orch_vars == <<orch_pc, tcp_connections, udp_connections, threads, orch_joined>>

rt_vars == <<rt_pc, rt_bytes, rt_fields, rt_out, rt_back>>

main_vars == <<main_pc, main_inputs, params, worker_segment>>

ts_vars == <<ts_loop, ts_handlers>>

uw_vars == <<uw>>

bc_vars == <<bc_pc, bc_offer, bc_sent, bc_time, bc_failed, bc_snapshot>>

vars == <<lfo_vars, us_vars, uc_vars, tcp_vars, orch_vars, rt_vars, main_vars, ts_vars, uw_vars, bc_vars>>

\* what the steps of one component leave alone: the other components
lfo_frame  == <<us_vars, uc_vars, tcp_vars, orch_vars, rt_vars, main_vars, ts_vars, uw_vars, bc_vars>>
us_frame   == <<lfo_vars, uc_vars, tcp_vars, orch_vars, rt_vars, main_vars, ts_vars, uw_vars, bc_vars>>
uc_frame   == <<lfo_vars, us_vars, tcp_vars, orch_vars, rt_vars, main_vars, ts_vars, uw_vars, bc_vars>>
tcp_frame  == <<lfo_vars, us_vars, uc_vars, orch_vars, rt_vars, main_vars, ts_vars, uw_vars, bc_vars>>
orch_frame == <<lfo_vars, us_vars, uc_vars, tcp_vars, rt_vars, main_vars, ts_vars, uw_vars, bc_vars>>
rt_frame == <<lfo_vars, us_vars, uc_vars, tcp_vars, orch_vars, main_vars, ts_vars, uw_vars, bc_vars>>
main_frame == <<lfo_vars, us_vars, uc_vars, tcp_vars, orch_vars, rt_vars, ts_vars, uw_vars, bc_vars>>
ts_frame == <<lfo_vars, us_vars, uc_vars, tcp_vars, orch_vars, rt_vars, main_vars, uw_vars, bc_vars>>
uw_frame == <<lfo_vars, us_vars, uc_vars, tcp_vars, orch_vars, rt_vars, main_vars, ts_vars, bc_vars>>
bc_frame == <<lfo_vars, us_vars, uc_vars, tcp_vars, orch_vars, rt_vars, main_vars, ts_vars, uw_vars>>

\* ------------------------------------------------- discovery listener
ServerIPs == {"172.20.10.10", "172.20.10.11"}

\* datagrams that can reach the listener's port
ListenerDatagrams ==
    { offer_message,
      pack_IBHH(MAGIC_COOKIE, OFFER_TYPE, 15001, 16001),
      pack_IBHH(<<171, 205, 220, 187>>, OFFER_TYPE, SERVER_UDP_PORT, SERVER_TCP_PORT),
      pack_IBHH(<<0, 205, 220, 186>>, OFFER_TYPE, SERVER_UDP_PORT, SERVER_TCP_PORT),
      pack_IBHH(MAGIC_COOKIE, REQUEST_TYPE, SERVER_UDP_PORT, SERVER_TCP_PORT),
      SubSeq(offer_message, 1, 8),
      offer_message \o <<0>>,
      <<>> }

LfoInit ==
    /\ lfo_pc = "start"
    /\ lfo_sock = "open"
    /\ lfo_closed_use = FALSE
    /\ lfo_result = <<>>
    /\ lfo_log = <<>>
    /\ lfo_timeouts = 0

\* lines 28-32: socket(), setsockopt, bind and settimeout run before the try
LfoBind ==
    /\ lfo_pc = "start"
    /\ lfo_pc' = "WAITING"
    /\ UNCHANGED <<lfo_sock, lfo_closed_use, lfo_result, lfo_log, lfo_timeouts>>
    /\ UNCHANGED lfo_frame

\* bind raises (port in use, no permission): the exception leaves the
\* function before the try/finally is entered
LfoBindError ==
    /\ lfo_pc = "start"
    /\ lfo_pc' = "raised"
    /\ UNCHANGED <<lfo_sock, lfo_closed_use, lfo_result, lfo_log, lfo_timeouts>>
    /\ UNCHANGED lfo_frame

\* lines 39-45, 52-54, 56-57: one datagram is received and decoded
LfoRecv(data, ip) ==
    /\ lfo_pc = "WAITING"
    /\ Len(lfo_log) < MaxDatagrams
    /\ lfo_log' = Append(lfo_log, [data |-> data, ip |-> ip])
    /\ LET u == unpack_IBHH(data) IN
       IF (~u.error) /\ u.magic_cookie = MAGIC_COOKIE /\ u.message_type = OFFER_TYPE
       THEN \* close() on line 44, return, then close() again in the finally
            /\ lfo_sock' = "closed"
            /\ lfo_closed_use' = TRUE
            /\ lfo_result' = <<ip, u.server_tcp_port, u.server_udp_port>>
            /\ lfo_pc' = "DONE"
       ELSE UNCHANGED <<lfo_sock, lfo_closed_use, lfo_result, lfo_pc>>
    /\ UNCHANGED lfo_timeouts
    /\ UNCHANGED lfo_frame

\* lines 48-50: recvfrom raises socket.timeout after 35 s without a datagram
LfoTimeout ==
    /\ lfo_pc = "WAITING"
    /\ lfo_timeouts < MaxTimeouts
    /\ lfo_timeouts' = lfo_timeouts + 1
    /\ UNCHANGED <<lfo_pc, lfo_sock, lfo_closed_use, lfo_result, lfo_log>>
    /\ UNCHANGED lfo_frame

LfoNext ==
    \/ LfoBind
    \/ LfoBindError
    \/ \E data \in ListenerDatagrams, ip \in ServerIPs : LfoRecv(data, ip)
    \/ LfoTimeout


\* ------------------------------------------------------ UDP transfer server
ClientAddrs == {<<"172.20.10.2", 50001>>, <<"172.20.10.3", 50002>>}

\* requested sizes carried by the Requests that reach the server
RequestSizes == {0, 1024, 2500}

request_of(size) == pack_IBQ(MAGIC_COOKIE, REQUEST_TYPE, size)

\* datagrams that are not Requests: the server's own broadcast Offer, a wrong
\* cookie, a wrong type, a wrong length
ServerJunk ==
    { offer_message,
      pack_IBQ(<<171, 205, 220, 187>>, REQUEST_TYPE, 2500),
      pack_IBQ(MAGIC_COOKIE, PAYLOAD_TYPE, 2500),
      request_of(2500) \o <<0>> }

\* (datagram, sender) pairs that can reach the server's UDP port
ServerArrivals ==
    ({ request_of(size) : size \in RequestSizes } \X ClientAddrs) \cup
    (ServerJunk \X {<<"172.20.10.10", 15000>>})

chunks_of_floor(file_size) == file_size \div chunk_size

\* line 135
chunks_of(file_size) == (file_size + chunk_size - 1) \div chunk_size

\* lines 138-141: header + b'd' * min(chunk_size, remaining_bytes)
payload_datagram(file_size, chunks, chunk_number) ==
    LET remaining_bytes == file_size - (chunk_number * chunk_size)
    IN  pack_IBQQ(MAGIC_COOKIE, PAYLOAD_TYPE, chunks, chunk_number)
            \o [i \in 1..Min(chunk_size, remaining_bytes) |-> 100]

UsInit ==
    /\ us_loop = "running"
    /\ us_threads = <<>>
    /\ us_sent = <<>>

\* lines 162-163: recvfrom, then a handler thread is started with the datagram
UsRecv(data, client_address) ==
    /\ us_loop = "running"
    /\ Len(us_threads) < MaxUdpRequests
    /\ us_threads' = Append(us_threads,
          [data |-> data, client_address |-> client_address, pc |-> "start",
           file_size |-> 0, chunks |-> 0, chunk_number |-> 0, result |-> "none"])
    /\ us_sent' = Append(us_sent, <<>>)
    /\ UNCHANGED us_loop
    /\ UNCHANGED us_frame

\* lines 164-165: recvfrom raises, the loop is left
UsLoopError ==
    /\ us_loop = "running"
    /\ us_loop' = "stopped"
    /\ UNCHANGED <<us_threads, us_sent>>
    /\ UNCHANGED us_frame

UsValidate_cookie_only(h) ==
    /\ h \in 1..Len(us_threads)
    /\ us_threads[h].pc = "start"
    /\ LET t == us_threads[h] IN
       IF Len(t.data) # 13
       THEN us_threads' = [us_threads EXCEPT ![h].pc = "returned", ![h].result = "False"]
       ELSE LET u == unpack_IBQ(t.data) IN
            IF u.magic_cookie # MAGIC_COOKIE
            THEN us_threads' = [us_threads EXCEPT ![h].pc = "returned", ![h].result = "False"]
            ELSE LET chunks == chunks_of(u.file_size) IN
                 us_threads' = [us_threads EXCEPT
                     ![h].file_size = u.file_size,
                     ![h].chunks = chunks,
                     ![h].pc = IF chunks = 0 THEN "returned" ELSE "send",
                     ![h].result = IF chunks = 0 THEN "True" ELSE "none"]
    /\ UNCHANGED <<us_loop, us_sent>>
    /\ UNCHANGED us_frame

\* lines 123-135: the handler validates the Request and computes chunks
UsValidate(h) ==
    /\ h \in 1..Len(us_threads)
    /\ us_threads[h].pc = "start"
    /\ LET t == us_threads[h] IN
       IF Len(t.data) # 13
       THEN us_threads' = [us_threads EXCEPT ![h].pc = "returned", ![h].result = "False"]
       ELSE LET u == unpack_IBQ(t.data) IN
            IF u.magic_cookie # MAGIC_COOKIE \/ u.message_type # REQUEST_TYPE
            THEN us_threads' = [us_threads EXCEPT ![h].pc = "returned", ![h].result = "False"]
            ELSE LET chunks == chunks_of(u.file_size) IN
                 us_threads' = [us_threads EXCEPT
                     ![h].file_size = u.file_size,
                     ![h].chunks = chunks,
                     ![h].pc = IF chunks = 0 THEN "returned" ELSE "send",
                     ![h].result = IF chunks = 0 THEN "True" ELSE "none"]
    /\ UNCHANGED <<us_loop, us_sent>>
    /\ UNCHANGED us_frame

UsSend_first_client(h) ==
    /\ h \in 1..Len(us_threads)
    /\ us_threads[h].pc = "send"
    /\ LET t == us_threads[h] IN
       /\ us_sent' = [us_sent EXCEPT ![h] = Append(@,
              [to |-> us_threads[1].client_address,
               data |-> payload_datagram(t.file_size, t.chunks, t.chunk_number)])]
       /\ us_threads' = [us_threads EXCEPT
              ![h].chunk_number = t.chunk_number + 1,
              ![h].pc = IF t.chunk_number + 1 = t.chunks THEN "returned" ELSE "send",
              ![h].result = IF t.chunk_number + 1 = t.chunks THEN "True" ELSE "none"]
    /\ UNCHANGED us_loop
    /\ UNCHANGED us_frame

\* lines 137-144: one iteration of the send loop; the handler returns True
\* after the last chunk
UsSend(h) ==
    /\ h \in 1..Len(us_threads)
    /\ us_threads[h].pc = "send"
    /\ LET t == us_threads[h] IN
       /\ us_sent' = [us_sent EXCEPT ![h] = Append(@,
              [to |-> t.client_address,
               data |-> payload_datagram(t.file_size, t.chunks, t.chunk_number)])]
       /\ us_threads' = [us_threads EXCEPT
              ![h].chunk_number = t.chunk_number + 1,
              ![h].pc = IF t.chunk_number + 1 = t.chunks THEN "returned" ELSE "send",
              ![h].result = IF t.chunk_number + 1 = t.chunks THEN "True" ELSE "none"]
    /\ UNCHANGED us_loop
    /\ UNCHANGED us_frame

\* lines 146-148: sendto raises, the handler returns False
UsSendError(h) ==
    /\ h \in 1..Len(us_threads)
    /\ us_threads[h].pc = "send"
    /\ us_threads' = [us_threads EXCEPT ![h].pc = "returned", ![h].result = "False"]
    /\ UNCHANGED <<us_loop, us_sent>>
    /\ UNCHANGED us_frame

UsNext ==
    \/ \E m \in ServerArrivals : UsRecv(m[1], m[2])
    \/ UsLoopError
    \/ \E h \in 1..MaxUdpRequests : UsValidate(h)
    \/ \E h \in 1..MaxUdpRequests : UsSend(h)
    \/ \E h \in 1..MaxUdpRequests : UsSendError(h)


\* ------------------------------------------------------ UDP transfer client
\* file sizes entered by the user
FileSizes == {1, 1024, 2500, 3000}

\* datagrams reaching the worker's socket that are not Payloads: an Offer,
\* a truncated header, a wrong cookie, a wrong type
ClientJunk ==
    { offer_message,
      SubSeq(pack_IBQQ(MAGIC_COOKIE, PAYLOAD_TYPE, 1, 0), 1, 20),
      pack_IBQQ(<<171, 205, 220, 187>>, PAYLOAD_TYPE, 1, 0) \o <<100>>,
      pack_IBQQ(MAGIC_COOKIE, REQUEST_TYPE, 2, 0) }

\* the burst handle_udp_connection sends for a Request of segment_size
ServerBurst(segment_size) ==
    { payload_datagram(segment_size, chunks_of(segment_size), k) :
         k \in 0..(chunks_of(segment_size) - 1) }

\* what a received datagram is: the chunk index it carries when it is a
\* Payload (21 bytes or more, cookie and type right), -1 otherwise
datagram_tag(data) ==
    IF Len(data) < 21 THEN -1
    ELSE IF SubSeq(data, 1, 4) # MAGIC_COOKIE \/ data[5] # PAYLOAD_TYPE THEN -1
    ELSE FromBE(SubSeq(data, 14, 21))

UcInit ==
    /\ uc_pc = "start"
    /\ uc_sock = "open"
    /\ uc_request = <<>>
    /\ uc_segment_size = 0
    /\ received_segments = 0
    /\ total_segment_count = 0
    /\ uc_last = <<>>
    /\ uc_nrecv = 0
    /\ uc_log = <<>>
    /\ uc_retries = 0
    /\ uc_exit = "none"
    /\ success_rate = <<>>

\* line 190: (received_segments / total_segment_count) * 100, 0 if no total
rate_of_unguarded(received, total) == [num |-> received * 100, den |-> total]

rate_of(received, total) ==
    IF total # 0 THEN [num |-> received * 100, den |-> total]
    ELSE [num |-> 0, den |-> 1]

\* lines 155-166: the Request is packed and sent, the counters start at 0
UcStart(file_size, connections) ==
    /\ uc_pc = "start"
    /\ uc_segment_size' = file_size \div connections
    /\ uc_request' = pack_IBQ(MAGIC_COOKIE, REQUEST_TYPE, file_size \div connections)
    /\ received_segments' = 0
    /\ total_segment_count' = 0
    /\ uc_pc' = "recv"
    /\ UNCHANGED <<uc_sock, uc_last, uc_nrecv, uc_log, uc_retries, uc_exit, success_rate>>
    /\ UNCHANGED uc_frame

\* lines 193-197: sendto raises; the except prints, the finally closes
UcStartError ==
    /\ uc_pc = "start"
    /\ uc_pc' = "raised"
    /\ uc_exit' = "error"
    /\ uc_sock' = "closed"
    /\ UNCHANGED <<uc_request, uc_segment_size, received_segments, total_segment_count,
                   uc_last, uc_nrecv, uc_log, uc_retries, success_rate>>
    /\ UNCHANGED uc_frame

\* lines 170-182 and, when the loop is left, 189-197
UcRecv(data) ==
    /\ uc_pc = "recv"
    /\ uc_nrecv < MaxUdpArrivals
    /\ uc_nrecv' = uc_nrecv + 1
    /\ uc_last' = data
    /\ uc_log' = Append(uc_log, datagram_tag(data))
    /\ received_segments' = received_segments + 1
    /\ IF Len(data) < 21
       THEN UNCHANGED <<total_segment_count, uc_pc, uc_exit, success_rate, uc_sock>>
       ELSE LET u == unpack_IBQQ(SubSeq(data, 1, 21)) IN
            /\ total_segment_count' = u.total_segment_count
            /\ IF u.magic_cookie # MAGIC_COOKIE \/ u.message_type # PAYLOAD_TYPE
               THEN UNCHANGED <<uc_pc, uc_exit, success_rate, uc_sock>>
               ELSE IF received_segments' = total_segment_count'
                    THEN /\ uc_pc' = "finished"
                         /\ uc_exit' = "complete"
                         /\ success_rate' = rate_of(received_segments', total_segment_count')
                         /\ uc_sock' = "closed"
                    ELSE UNCHANGED <<uc_pc, uc_exit, success_rate, uc_sock>>
    /\ UNCHANGED <<uc_request, uc_segment_size, uc_retries>>
    /\ UNCHANGED uc_frame

\* lines 184-187 with more than 1 s since the last datagram: the loop is
\* left, then lines 189-197
UcIdleTimeout ==
    /\ uc_pc = "recv"
    /\ uc_pc' = "finished"
    /\ uc_exit' = "idle"
    /\ success_rate' = rate_of(received_segments, total_segment_count)
    /\ uc_sock' = "closed"
    /\ UNCHANGED <<uc_request, uc_segment_size, received_segments, total_segment_count,
                   uc_last, uc_nrecv, uc_log, uc_retries>>
    /\ UNCHANGED uc_frame

\* lines 184-185 when time.time() - last_received_time is not above 1 (the
\* wall clock is not the clock of the socket timeout): the loop goes on
UcTimeoutContinue ==
    /\ uc_pc = "recv"
    /\ uc_retries < MaxIdleRetries
    /\ uc_retries' = uc_retries + 1
    /\ UNCHANGED <<uc_pc, uc_sock, uc_request, uc_segment_size, received_segments,
                   total_segment_count, uc_last, uc_nrecv, uc_log, uc_exit, success_rate>>
    /\ UNCHANGED uc_frame

\* lines 193-197: recvfrom raises another exception
UcRecvError ==
    /\ uc_pc = "recv"
    /\ uc_pc' = "raised"
    /\ uc_exit' = "error"
    /\ uc_sock' = "closed"
    /\ UNCHANGED <<uc_request, uc_segment_size, received_segments, total_segment_count,
                   uc_last, uc_nrecv, uc_log, uc_retries, success_rate>>
    /\ UNCHANGED uc_frame

\* the worker fed with its server's burst, lost, reordered or duplicated,
\* and with datagrams that are not Payloads
UcNext ==
    \/ \E f \in FileSizes, c \in 1..MaxConnections : UcStart(f, c)
    \/ UcStartError
    \/ \E data \in ServerBurst(uc_segment_size) \cup ClientJunk : UcRecv(data)
    \/ UcIdleTimeout
    \/ UcTimeoutContinue
    \/ UcRecvError


\* ------------------------------------------------------------ TCP transfer
\* str(n).encode(): the decimal digits of n, in ASCII
RECURSIVE Digits(_)
Digits(n) == IF n < 10 THEN <<48 + n>> ELSE Digits(n \div 10) \o <<48 + (n % 10)>>

\* f"{segment_size}\n".encode()
request_line(segment_size) == Digits(segment_size) \o <<10>>

IsSpace(c) == c \in {9, 10, 11, 12, 13, 32}

\* str.strip()
RECURSIVE strip(_)
strip(str) ==
    IF Len(str) = 0 THEN str
    ELSE IF IsSpace(str[1]) THEN strip(Tail(str))
    ELSE IF IsSpace(str[Len(str)]) THEN strip(SubSeq(str, 1, Len(str) - 1))
    ELSE str

\* str.isdigit() on ASCII text
isdigit(str) == Len(str) > 0 /\ \A i \in 1..Len(str) : str[i] \in 48..57

\* int(str) for a string of digits
RECURSIVE int(_)
int(str) == IF Len(str) = 0 THEN 0
            ELSE 10 * int(SubSeq(str, 1, Len(str) - 1)) + (str[Len(str)] - 48)

chunk_len_full(file_size, sent) == chunk_size

\* lines 78-79: len(b'a' * min(chunk_size, remaining_bytes))
chunk_len(file_size, sent) == Min(chunk_size, file_size - sent)

\* amounts one recv(1024) of the client can return when avail bytes wait
RecvSizes(avail) == {Min(chunk_size, avail), Min(500, avail)}

TcpInit ==
    /\ tc_pc = "start"
    /\ tc_sock = "open"
    /\ tc_segment_size = 0
    /\ bytes_receive = 0
    /\ tcp_c2s = <<>>
    /\ tcp_s2c = 0
    /\ th_pc = "idle"
    /\ th_sock = "open"
    /\ file_size_bytes = 0
    /\ total_bytes_sent = 0
    /\ th_writes = <<>>
    /\ th_result = "none"
    /\ th_error = FALSE

\* client lines 111-120; server lines 103-105: the connection is accepted and
\* a handler thread is started on it
TcStart(file_size, connections) ==
    /\ tc_pc = "start"
    /\ tc_segment_size' = file_size \div connections
    /\ tcp_c2s' = request_line(file_size \div connections)
    /\ bytes_receive' = 0
    /\ tc_pc' = "read"
    /\ th_pc' = "recv"
    /\ UNCHANGED <<tc_sock, tcp_s2c, th_sock, file_size_bytes, total_bytes_sent,
                   th_writes, th_result, th_error>>
    /\ UNCHANGED tcp_frame

\* client lines 131-135: connect raises (refused); except, then finally
TcConnectError ==
    /\ tc_pc = "start"
    /\ tc_pc' = "raised"
    /\ tc_sock' = "closed"
    /\ UNCHANGED <<tc_segment_size, bytes_receive, tcp_c2s, tcp_s2c, th_pc, th_sock,
                   file_size_bytes, total_bytes_sent, th_writes, th_result, th_error>>
    /\ UNCHANGED tcp_frame

\* client lines 122-129, 134-135 with segment_size = 0: the loop is not entered
TcNoRead ==
    /\ tc_pc = "read"
    /\ ~(bytes_receive < tc_segment_size)
    /\ tc_pc' = "finished"
    /\ tc_sock' = "closed"
    /\ UNCHANGED <<tc_segment_size, bytes_receive, tcp_c2s, tcp_s2c, th_pc, th_sock,
                   file_size_bytes, total_bytes_sent, th_writes, th_result, th_error>>
    /\ UNCHANGED tcp_frame

\* client lines 122-126: one recv of n bytes; the loop (and the function)
\* ends when bytes_receive reaches segment_size
TcRecv(n) ==
    /\ tc_pc = "read"
    /\ bytes_receive < tc_segment_size
    /\ tcp_s2c > 0
    /\ n \in 1..Min(chunk_size, tcp_s2c)
    /\ bytes_receive' = bytes_receive + n
    /\ tcp_s2c' = tcp_s2c - n
    /\ IF bytes_receive + n < tc_segment_size
       THEN UNCHANGED <<tc_pc, tc_sock>>
       ELSE tc_pc' = "finished" /\ tc_sock' = "closed"
    /\ UNCHANGED <<tc_segment_size, tcp_c2s, th_pc, th_sock, file_size_bytes,
                   total_bytes_sent, th_writes, th_result, th_error>>
    /\ UNCHANGED tcp_frame

\* client lines 123-125: recv returns b'' because the server has closed
TcEof ==
    /\ tc_pc = "read"
    /\ bytes_receive < tc_segment_size
    /\ tcp_s2c = 0
    /\ th_sock = "closed"
    /\ tc_pc' = "finished"
    /\ tc_sock' = "closed"
    /\ UNCHANGED <<tc_segment_size, bytes_receive, tcp_c2s, tcp_s2c, th_pc, th_sock,
                   file_size_bytes, total_bytes_sent, th_writes, th_result, th_error>>
    /\ UNCHANGED tcp_frame

\* client lines 131-135: recv raises (connection reset)
TcRecvError ==
    /\ tc_pc = "read"
    /\ bytes_receive < tc_segment_size
    /\ tc_pc' = "raised"
    /\ tc_sock' = "closed"
    /\ UNCHANGED <<tc_segment_size, bytes_receive, tcp_c2s, tcp_s2c, th_pc, th_sock,
                   file_size_bytes, total_bytes_sent, th_writes, th_result, th_error>>
    /\ UNCHANGED tcp_frame

\* server lines 65-75, 90-91: the single recv(1024) returns the first k bytes
\* that have arrived; an invalid request returns False and closes
ThRecv(k) ==
    /\ th_pc = "recv"
    /\ k \in 1..Min(chunk_size, Len(tcp_c2s))
    /\ tcp_c2s' = SubSeq(tcp_c2s, k + 1, Len(tcp_c2s))
    /\ LET data == strip(SubSeq(tcp_c2s, 1, k)) IN
       IF Len(data) = 0 \/ ~isdigit(data) \/ int(data) <= 0
       THEN /\ th_pc' = "returned"
            /\ th_result' = "False"
            /\ th_sock' = "closed"
            /\ UNCHANGED <<file_size_bytes, total_bytes_sent>>
       ELSE /\ file_size_bytes' = int(data)
            /\ total_bytes_sent' = 0
            /\ th_pc' = "send"
            /\ UNCHANGED <<th_result, th_sock>>
    /\ UNCHANGED <<tc_pc, tc_sock, tc_segment_size, bytes_receive, tcp_s2c,
                   th_writes, th_error>>
    /\ UNCHANGED tcp_frame

\* server lines 77-84, 90-91: one iteration of the send loop; after the last
\* one the handler returns True and the finally closes the socket
ThSend ==
    /\ th_pc = "send"
    /\ total_bytes_sent < file_size_bytes
    /\ LET n == chunk_len(file_size_bytes, total_bytes_sent) IN
       /\ tcp_s2c' = tcp_s2c + n
       /\ th_writes' = Append(th_writes, n)
       /\ total_bytes_sent' = total_bytes_sent + n
       /\ IF total_bytes_sent + n < file_size_bytes
          THEN UNCHANGED <<th_pc, th_result, th_sock>>
          ELSE th_pc' = "returned" /\ th_result' = "True" /\ th_sock' = "closed"
    /\ UNCHANGED <<tc_pc, tc_sock, tc_segment_size, bytes_receive, tcp_c2s,
                   file_size_bytes, th_error>>
    /\ UNCHANGED tcp_frame

\* server lines 86-91: recv or sendall raises; False is returned, the finally
\* closes the socket
ThError ==
    /\ th_pc \in {"recv", "send"}
    /\ th_pc' = "returned"
    /\ th_result' = "False"
    /\ th_error' = TRUE
    /\ th_sock' = "closed"
    /\ UNCHANGED <<tc_pc, tc_sock, tc_segment_size, bytes_receive, tcp_c2s, tcp_s2c,
                   file_size_bytes, total_bytes_sent, th_writes>>
    /\ UNCHANGED tcp_frame

TcpNext ==
    \/ \E f \in FileSizes, c \in 1..MaxConnections : TcStart(f, c)
    \/ TcConnectError
    \/ TcNoRead
    \/ \E n \in RecvSizes(tcp_s2c) : TcRecv(n)
    \/ TcEof
    \/ TcRecvError
    \/ \E k \in 1..Len(tcp_c2s) : ThRecv(k)
    \/ ThSend
    \/ ThError


\* ------------------------------------------------------ client orchestrator
OrchInit ==
    /\ orch_pc = "start"
    /\ tcp_connections = 0
    /\ udp_connections = 0
    /\ threads = <<>>
    /\ orch_joined = 0

\* lines 213-214, called from main with the validated parameters
OrchCall(n, m) ==
    /\ orch_pc = "start"
    /\ tcp_connections' = n
    /\ udp_connections' = m
    /\ threads' = <<>>
    /\ orch_pc' = IF n > 0 THEN "spawn_tcp" ELSE IF m > 0 THEN "spawn_udp" ELSE "join"
    /\ UNCHANGED orch_joined
    /\ UNCHANGED orch_frame

NumKind(kind) == Cardinality({i \in 1..Len(threads) : threads[i].kind = kind})

\* lines 216-219: one iteration, a TCP thread is created and started
OrchSpawnTcp ==
    /\ orch_pc = "spawn_tcp"
    /\ threads' = Append(threads, [kind |-> "tcp", state |-> "running"])
    /\ orch_pc' = IF NumKind("tcp") + 1 < tcp_connections THEN "spawn_tcp"
                  ELSE IF udp_connections > 0 THEN "spawn_udp" ELSE "join"
    /\ UNCHANGED <<tcp_connections, udp_connections, orch_joined>>
    /\ UNCHANGED orch_frame

\* lines 221-224: one iteration, a UDP thread is created and started
OrchSpawnUdp ==
    /\ orch_pc = "spawn_udp"
    /\ threads' = Append(threads, [kind |-> "udp", state |-> "running"])
    /\ orch_pc' = IF NumKind("udp") + 1 < udp_connections THEN "spawn_udp" ELSE "join"
    /\ UNCHANGED <<tcp_connections, udp_connections, orch_joined>>
    /\ UNCHANGED orch_frame

OrchJoin_nowait ==
    /\ orch_pc = "join"
    /\ orch_joined < Len(threads)
    /\ orch_joined' = orch_joined + 1
    /\ orch_pc' = IF orch_joined + 1 = Len(threads) THEN "done" ELSE "join"
    /\ UNCHANGED <<tcp_connections, udp_connections, threads>>
    /\ UNCHANGED orch_frame

\* lines 226-229: join() of the next thread returns once that thread has
\* ended; after the last join the completion message is printed
OrchJoin ==
    /\ orch_pc = "join"
    /\ orch_joined < Len(threads)
    /\ threads[orch_joined + 1].state # "running"
    /\ orch_joined' = orch_joined + 1
    /\ orch_pc' = IF orch_joined + 1 = Len(threads) THEN "done" ELSE "join"
    /\ UNCHANGED <<tcp_connections, udp_connections, threads>>
    /\ UNCHANGED orch_frame

\* a worker returns after its report line (client lines 128-129, 189-191)
WorkerFinish(w) ==
    /\ w \in 1..Len(threads)
    /\ threads[w].state = "running"
    /\ threads' = [threads EXCEPT ![w].state = "finished"]
    /\ UNCHANGED <<orch_pc, tcp_connections, udp_connections, orch_joined>>
    /\ UNCHANGED orch_frame

\* a worker ends through its except branch (client lines 131-135, 193-197):
\* the exception is caught and printed inside the worker's own thread
WorkerError(w) ==
    /\ w \in 1..Len(threads)
    /\ threads[w].state = "running"
    /\ threads' = [threads EXCEPT ![w].state = "error"]
    /\ UNCHANGED <<orch_pc, tcp_connections, udp_connections, orch_joined>>
    /\ UNCHANGED orch_frame

OrchNext ==
    \/ \E n \in 1..MaxConnections, m \in 1..MaxConnections : OrchCall(n, m)
    \/ OrchSpawnTcp
    \/ OrchSpawnUdp
    \/ OrchJoin
    \/ \E w \in 1..(2 * MaxConnections) : WorkerFinish(w)
    \/ \E w \in 1..(2 * MaxConnections) : WorkerError(w)


\* ------------------------------------------- Offer codec, both directions
\* 9-byte strings laid out as an Offer: cookie, type, two 16-bit ports
OfferByteValues == {0, 1, 58, 152, 255}

OfferStrings ==
    { c \o <<t, a, b, x, y>> :
        c \in {MAGIC_COOKIE, <<0, 205, 220, 255>>}, t \in {OFFER_TYPE, 0, 255},
        a \in OfferByteValues, b \in OfferByteValues,
        x \in OfferByteValues, y \in OfferByteValues }

\* field values handed to the encoder
PortValues == {0, 1, 255, 256, SERVER_UDP_PORT, SERVER_TCP_PORT, 65535}

RtInit ==
    /\ rt_pc = "idle"
    /\ rt_bytes = <<>>
    /\ rt_fields = <<>>
    /\ rt_out = <<>>
    /\ rt_back = <<>>

\* client line 40: a received 9-byte string is decoded
RtDecode(data) ==
    /\ rt_pc = "idle"
    /\ rt_bytes' = data
    /\ rt_fields' = LET u == unpack_IBHH(data)
                    IN  <<u.magic_cookie, u.message_type, u.server_udp_port, u.server_tcp_port>>
    /\ rt_pc' = "decoded"
    /\ UNCHANGED <<rt_out, rt_back>>
    /\ UNCHANGED rt_frame

\* server line 46 applied to the decoded fields
RtReencode ==
    /\ rt_pc = "decoded"
    /\ rt_out' = pack_IBHH(rt_fields[1], rt_fields[2], rt_fields[3], rt_fields[4])
    /\ rt_pc' = "reencoded"
    /\ UNCHANGED <<rt_bytes, rt_fields, rt_back>>
    /\ UNCHANGED rt_frame

\* server line 46: four field values are encoded
RtEncode(cookie, type, udp_port, tcp_port) ==
    /\ rt_pc = "idle"
    /\ rt_fields' = <<cookie, type, udp_port, tcp_port>>
    /\ rt_out' = pack_IBHH(cookie, type, udp_port, tcp_port)
    /\ rt_pc' = "encoded"
    /\ UNCHANGED <<rt_bytes, rt_back>>
    /\ UNCHANGED rt_frame

\* client line 40 applied to the encoded bytes
RtRedecode ==
    /\ rt_pc = "encoded"
    /\ rt_back' = LET u == unpack_IBHH(rt_out)
                  IN  IF u.error THEN <<>>
                      ELSE <<u.magic_cookie, u.message_type, u.server_udp_port, u.server_tcp_port>>
    /\ rt_pc' = "redecoded"
    /\ UNCHANGED <<rt_bytes, rt_fields, rt_out>>
    /\ UNCHANGED rt_frame

RtNext ==
    \/ \E data \in OfferStrings : RtDecode(data)
    \/ RtReencode
    \/ \E c \in {MAGIC_COOKIE, <<0, 205, 220, 255>>}, t \in {OFFER_TYPE, 0, 255},
          u \in PortValues, p \in PortValues : RtEncode(c, t, u, p)
    \/ RtRedecode


\* ------------------------------------------------- client main, user input
\* lines typed at the file-size prompt: "1", "7", " 7 ", and the rejected
\* "0", "-5", "abc", "1.5", ""
FileSizeLines ==
    { <<49>>, <<55>>, <<32, 55, 32>>,
      <<48>>, <<45, 53>>, <<97, 98, 99>>, <<49, 46, 53>>, <<>> }

\* lines typed at the two connection-count prompts: "1", "2", " 3",
\* and the rejected "0", "-2", "x", ""
ConnectionLines ==
    { <<49>>, <<50>>, <<32, 51>>, <<48>>, <<45, 50>>, <<120>>, <<>> }

valid_input_digits_only(str) == isdigit(str)

\* lines 71, 78, 85 on the stripped line: isdigit() and int() > 0
valid_input(str) == isdigit(str) /\ int(str) > 0

segment_of_ceil(file_size, connections) == (file_size + connections - 1) \div connections

\* client lines 114 and 158: file_size // connections
segment_of(file_size, connections) == file_size \div connections

MainInit ==
    /\ main_pc = "input"
    /\ main_inputs = <<>>
    /\ params = <<>>
    /\ worker_segment = [w \in 1..(2 * MaxConnections) |-> -1]

\* lines 70-91: one prompt is answered; a rejected line returns None at once
\* and main exits (lines 251-252); the third accepted line returns the tuple
MainPrompt(line) ==
    /\ main_pc = "input"
    /\ main_inputs' = Append(main_inputs, line)
    /\ LET str == strip(line) IN
       IF ~valid_input(str)
       THEN main_pc' = "exited" /\ params' = <<>>
       ELSE /\ params' = Append(params, int(str))
            /\ main_pc' = IF Len(params) = 2 THEN "call" ELSE "input"
    /\ UNCHANGED worker_segment
    /\ UNCHANGED main_frame

\* lines 93-95: input() raises (end of input); None is returned, main exits
MainInputError ==
    /\ main_pc = "input"
    /\ main_pc' = "exited"
    /\ params' = <<>>
    /\ UNCHANGED <<main_inputs, worker_segment>>
    /\ UNCHANGED main_frame

\* lines 245-249: initiate_speed_test is called with the returned parameters
MainCall ==
    /\ main_pc = "call"
    /\ OrchCall(params[2], params[3])

\* initiate_speed_test has returned to main
MainReturn ==
    /\ main_pc = "call"
    /\ orch_pc = "done"
    /\ main_pc' = "returned"
    /\ UNCHANGED <<main_inputs, params, worker_segment>>
    /\ UNCHANGED main_frame

\* client lines 114 and 158: a started worker computes its segment_size from
\* the file_size and the connection count it was started with
WorkerRequest(w) ==
    /\ w \in 1..Len(threads)
    /\ threads[w].state = "running"
    /\ worker_segment[w] = -1
    /\ worker_segment' = [worker_segment EXCEPT ![w] =
          segment_of(params[1], IF threads[w].kind = "tcp" THEN tcp_connections
                                ELSE udp_connections)]
    /\ UNCHANGED <<main_pc, main_inputs, params>>
    /\ UNCHANGED main_frame

MainNext ==
    \/ \E line \in (IF Len(main_inputs) = 0 THEN FileSizeLines ELSE ConnectionLines) :
          MainPrompt(line)
    \/ MainInputError
    \/ MainCall
    \/ MainReturn
    \/ OrchSpawnTcp
    \/ OrchSpawnUdp
    \/ OrchJoin
    \/ \E w \in 1..(2 * MaxConnections) : WorkerRequest(w)
    \/ \E w \in 1..(2 * MaxConnections) : WorkerFinish(w)
    \/ \E w \in 1..(2 * MaxConnections) : WorkerError(w)

\* ------------------------------------- TCP server, one thread per connection
\* what the first recv(1024) of a handler can return: nothing (the peer closed),
\* "abc\n", "0\n", "-5\n", " \n", "3\n" and "1030\n"
FirstReads ==
    { <<>>, <<97, 98, 99, 10>>, <<48, 10>>, <<45, 53, 10>>, <<32, 10>>,
      <<51, 10>>, request_line(1030) }

TsInit ==
    /\ ts_loop = "accepting"
    /\ ts_handlers = <<>>

\* how many handlers have returned False so far
FailedHandlers == Cardinality({h \in 1..Len(ts_handlers) : ts_handlers[h].result = "False"})

\* lines 103-105: accept returns a connection and a thread is started on it
TsAccept ==
    /\ ts_loop = "accepting"
    /\ Len(ts_handlers) < MaxTcpAccepts
    /\ ts_handlers' = Append(ts_handlers,
            [pc |-> "recv", sock |-> "open", data |-> <<>>, file_size_bytes |-> 0,
             total_bytes_sent |-> 0, writes |-> <<>>, result |-> "none",
             error |-> FALSE, failed_before |-> FailedHandlers])
    /\ UNCHANGED ts_loop
    /\ UNCHANGED ts_frame

\* lines 106-107: accept (or starting the thread) raises, the loop is left
TsAcceptError ==
    /\ ts_loop = "accepting"
    /\ ts_loop' = "stopped"
    /\ UNCHANGED ts_handlers
    /\ UNCHANGED ts_frame

\* lines 65-72 and 90-91: the first read, its validation, close on return
TsHandlerRecv(h, read) ==
    /\ h \in 1..Len(ts_handlers)
    /\ ts_handlers[h].pc = "recv"
    /\ LET data == strip(read) IN
       IF Len(data) = 0 \/ ~isdigit(data) \/ int(data) <= 0
       THEN ts_handlers' = [ts_handlers EXCEPT ![h].data = read,
                                               ![h].pc = "returned",
                                               ![h].result = "False",
                                               ![h].sock = "closed"]
       ELSE ts_handlers' = [ts_handlers EXCEPT ![h].data = read,
                                               ![h].file_size_bytes = int(data),
                                               ![h].total_bytes_sent = 0,
                                               ![h].pc = "send"]
    /\ UNCHANGED ts_loop
    /\ UNCHANGED ts_frame

\* lines 77-84 and 90-91: one sendall of the loop; True after the last
TsHandlerSend(h) ==
    /\ h \in 1..Len(ts_handlers)
    /\ ts_handlers[h].pc = "send"
    /\ ts_handlers[h].total_bytes_sent < ts_handlers[h].file_size_bytes
    /\ LET n    == chunk_len(ts_handlers[h].file_size_bytes, ts_handlers[h].total_bytes_sent)
           last == ts_handlers[h].total_bytes_sent + n >= ts_handlers[h].file_size_bytes
       IN  ts_handlers' =
             [ts_handlers EXCEPT ![h].total_bytes_sent = @ + n,
                                 ![h].writes = Append(@, n),
                                 ![h].pc = IF last THEN "returned" ELSE @,
                                 ![h].result = IF last THEN "True" ELSE @,
                                 ![h].sock = IF last THEN "closed" ELSE @]
    /\ UNCHANGED ts_loop
    /\ UNCHANGED ts_frame

TsHandlerError_fatal(h) ==
    /\ h \in 1..Len(ts_handlers)
    /\ ts_handlers[h].pc \in {"recv", "send"}
    /\ ts_handlers' = [ts_handlers EXCEPT ![h].pc = "returned",
                                          ![h].result = "False",
                                          ![h].error = TRUE,
                                          ![h].sock = "closed"]
    /\ ts_loop' = "stopped"
    /\ UNCHANGED ts_frame

\* lines 86-91: recv, decode or sendall raises inside the handler; it returns
\* False and the finally closes its socket
TsHandlerError(h) ==
    /\ h \in 1..Len(ts_handlers)
    /\ ts_handlers[h].pc \in {"recv", "send"}
    /\ ts_handlers' = [ts_handlers EXCEPT ![h].pc = "returned",
                                          ![h].result = "False",
                                          ![h].error = TRUE,
                                          ![h].sock = "closed"]
    /\ UNCHANGED ts_loop
    /\ UNCHANGED ts_frame

TsNext ==
    \/ TsAccept
    \/ TsAcceptError
    \/ \E h \in 1..MaxTcpAccepts, read \in FirstReads : TsHandlerRecv(h, read)
    \/ \E h \in 1..MaxTcpAccepts : TsHandlerSend(h)
    \/ \E h \in 1..MaxTcpAccepts : TsHandlerError(h)

\* ------------------------------ one TCP and one UDP transfer, end to end
\* the address the UDP worker's socket sends its Request from
WorkerAddr == <<"172.20.10.2", 50001>>

\* client lines 213-216 and 97-117: a TCP worker is started with the file
\* size and the TCP connection count that were entered
XferTcpStart ==
    /\ main_pc = "call"
    /\ TcStart(params[1], params[2])

\* client lines 219-222 and 137-166: a UDP worker is started with the file
\* size and the UDP connection count that were entered
XferUdpStart ==
    /\ main_pc = "call"
    /\ UcStart(params[1], params[3])

\* server lines 162-163: the worker's Request reaches start_udp_server (the
\* network may deliver it more than once)
XferUdpRequest ==
    /\ uc_pc # "start"
    /\ uc_request # <<>>
    /\ UsRecv(uc_request, WorkerAddr)

\* client line 170: a datagram some handler sent to the worker's address is
\* received by the worker; nothing else reaches its socket
XferUdpDeliver(h, k) ==
    /\ h \in 1..Len(us_sent)
    /\ k \in 1..Len(us_sent[h])
    /\ us_sent[h][k].to = WorkerAddr
    /\ UcRecv(us_sent[h][k].data)

XferNext ==
    \/ \E line \in (IF Len(main_inputs) = 0 THEN FileSizeLines ELSE ConnectionLines) :
          MainPrompt(line)
    \/ XferTcpStart
    \/ XferUdpStart
    \/ XferUdpRequest
    \/ \E h \in 1..MaxUdpRequests : UsValidate(h)
    \/ \E h \in 1..MaxUdpRequests : UsSend(h)
    \/ \E h \in 1..MaxUdpRequests : UsSendError(h)
    \/ \E h \in 1..MaxUdpRequests, k \in 1..2 : XferUdpDeliver(h, k)
    \/ UcIdleTimeout
    \/ UcTimeoutContinue
    \/ UcRecvError
    \/ TcConnectError
    \/ TcNoRead
    \/ \E n \in RecvSizes(tcp_s2c) : TcRecv(n)
    \/ TcEof
    \/ TcRecvError
    \/ \E k \in 1..Len(tcp_c2s) : ThRecv(k)
    \/ ThSend
    \/ ThError

\* --------------------------------------- several UDP transfers in flight
\* segment sizes of the concurrent workers: 3 (one chunk), 1030 (two chunks)
UwSegments == {3, 1030}

UwInit ==
    uw = [a \in ClientAddrs |->
            [pc |-> "start", segment_size |-> 0, request |-> <<>>,
             received_segments |-> 0, total_segment_count |-> 0,
             nrecv |-> 0, last_from |-> <<0, 0>>, exit |-> "none",
             success_rate |-> <<>>]]

\* client lines 155-166: worker a makes its own socket, packs and sends its
\* Request, and starts counting from 0
UwStart(a, segment_size) ==
    /\ uw[a].pc = "start"
    /\ uw' = [uw EXCEPT ![a].pc = "recv",
                        ![a].segment_size = segment_size,
                        ![a].request = pack_IBQ(MAGIC_COOKIE, REQUEST_TYPE, segment_size),
                        ![a].received_segments = 0,
                        ![a].total_segment_count = 0]
    /\ UNCHANGED uw_frame

\* server lines 162-163: the Request of worker a reaches the shared server
\* socket; recvfrom reports a as its sender
UwRequest(a) ==
    /\ uw[a].pc # "start"
    /\ uw[a].request # <<>>
    /\ UsRecv(uw[a].request, a)

\* client lines 170-182, 189-197: worker a's recvfrom returns the k-th
\* datagram handler h sent, which was addressed to a's socket
UwRecv(a, h, k) ==
    /\ uw[a].pc = "recv"
    /\ uw[a].nrecv < MaxUdpArrivals
    /\ h \in 1..Len(us_sent)
    /\ k \in 1..Len(us_sent[h])
    /\ us_sent[h][k].to = a
    /\ LET data     == us_sent[h][k].data
           received == uw[a].received_segments + 1
           u        == unpack_IBQQ(SubSeq(data, 1, 21))
           counted  == [uw EXCEPT ![a].nrecv = @ + 1,
                                  ![a].last_from = <<h, k>>,
                                  ![a].received_segments = received]
       IN  IF Len(data) < 21
           THEN uw' = counted
           ELSE IF u.magic_cookie # MAGIC_COOKIE \/ u.message_type # PAYLOAD_TYPE
                THEN uw' = [counted EXCEPT ![a].total_segment_count = u.total_segment_count]
                ELSE IF received = u.total_segment_count
                     THEN uw' = [counted EXCEPT
                                   ![a].total_segment_count = u.total_segment_count,
                                   ![a].pc = "finished",
                                   ![a].exit = "complete",
                                   ![a].success_rate = rate_of(received, u.total_segment_count)]
                     ELSE uw' = [counted EXCEPT
                                   ![a].total_segment_count = u.total_segment_count]
    /\ UNCHANGED uw_frame

\* client lines 184-187: worker a got nothing for a second and leaves its loop
UwIdleTimeout(a) ==
    /\ uw[a].pc = "recv"
    /\ uw' = [uw EXCEPT ![a].pc = "finished",
                        ![a].exit = "idle",
                        ![a].success_rate =
                            rate_of(uw[a].received_segments, uw[a].total_segment_count)]
    /\ UNCHANGED uw_frame

\* client lines 193-197: sendto or recvfrom of worker a raises
UwError(a) ==
    /\ uw[a].pc \in {"start", "recv"}
    /\ uw' = [uw EXCEPT ![a].pc = "raised", ![a].exit = "error"]
    /\ UNCHANGED uw_frame

UwNext ==
    \/ \E a \in ClientAddrs, segment_size \in UwSegments : UwStart(a, segment_size)
    \/ \E a \in ClientAddrs : UwRequest(a)
    \/ \E h \in 1..MaxUdpRequests : UsValidate(h)
    \/ \E h \in 1..MaxUdpRequests : UsSend(h)
    \/ \E h \in 1..MaxUdpRequests : UsSendError(h)
    \/ \E a \in ClientAddrs, h \in 1..MaxUdpRequests, k \in 1..2 : UwRecv(a, h, k)
    \/ \E a \in ClientAddrs : UwIdleTimeout(a)
    \/ \E a \in ClientAddrs : UwError(a)

\* ------------------------------------------------- the Offer broadcaster
BcInit ==
    /\ bc_pc = "start"
    /\ bc_offer = <<>>
    /\ bc_sent = <<>>
    /\ bc_time = 0
    /\ bc_failed = FALSE
    /\ bc_snapshot = <<0, 0>>

\* lines 46-47: the Offer is packed and the socket is set to broadcast
BcBuild ==
    /\ bc_pc = "start"
    /\ bc_offer' = pack_IBHH(MAGIC_COOKIE, OFFER_TYPE, SERVER_UDP_PORT, SERVER_TCP_PORT)
    /\ bc_pc' = "send"
    /\ UNCHANGED <<bc_sent, bc_time, bc_failed, bc_snapshot>>
    /\ UNCHANGED bc_frame

\* lines 47, 52-53: setsockopt raises; the function ends before any send
BcSetupError ==
    /\ bc_pc = "start"
    /\ bc_pc' = "stopped"
    /\ UNCHANGED <<bc_offer, bc_sent, bc_time, bc_failed, bc_snapshot>>
    /\ UNCHANGED bc_frame

\* line 49: sendto(offer_message, ('<broadcast>', SERVER_UDP_PORT))
BcSend ==
    /\ bc_pc = "send"
    /\ Len(bc_sent) < MaxOffers
    /\ bc_sent' = Append(bc_sent,
          [data |-> bc_offer, to |-> <<"<broadcast>", SERVER_UDP_PORT>>, at |-> bc_time])
    /\ bc_pc' = "sleep"
    /\ UNCHANGED <<bc_offer, bc_time, bc_failed, bc_snapshot>>
    /\ UNCHANGED bc_frame

BcSendError_continues ==
    /\ bc_pc = "send"
    /\ bc_pc' = "sleep"
    /\ bc_failed' = TRUE
    /\ bc_snapshot' = <<Len(ts_handlers), Len(us_threads)>>
    /\ UNCHANGED <<bc_offer, bc_sent, bc_time>>
    /\ UNCHANGED bc_frame

\* lines 49, 52-53: sendto raises; the except is outside the loop, so the
\* function prints and returns
BcSendError ==
    /\ bc_pc = "send"
    /\ bc_pc' = "stopped"
    /\ bc_failed' = TRUE
    /\ bc_snapshot' = <<Len(ts_handlers), Len(us_threads)>>
    /\ UNCHANGED <<bc_offer, bc_sent, bc_time>>
    /\ UNCHANGED bc_frame

\* line 51: time.sleep(1)
BcSleep ==
    /\ bc_pc = "sleep"
    /\ bc_time' = bc_time + 1
    /\ bc_pc' = "send"
    /\ UNCHANGED <<bc_offer, bc_sent, bc_failed, bc_snapshot>>
    /\ UNCHANGED bc_frame

\* lines 49 and 162: the broadcast goes to SERVER_UDP_PORT, the port the
\* shared socket is bound to, so start_udp_server can receive the Offer back
BcLoopback(k) ==
    /\ k \in 1..Len(bc_sent)
    /\ Len(us_threads) < MaxServed
    /\ UsRecv(bc_sent[k].data, <<"172.20.10.10", SERVER_UDP_PORT>>)

\* line 162: a client's Request for 3 bytes arrives
BcUdpRequest ==
    /\ Len(us_threads) < MaxServed
    /\ UsRecv(request_of(3), WorkerAddr)

\* line 103 of start_tcp_server: a client connects
BcTcpAccept ==
    /\ Len(ts_handlers) < MaxServed
    /\ TsAccept

\* main lines 202-204: the broadcaster, start_tcp_server and start_udp_server
\* run as three threads; the TCP clients ask for 3 bytes
BcNext ==
    \/ BcBuild
    \/ BcSetupError
    \/ BcSend
    \/ BcSendError
    \/ BcSleep
    \/ \E k \in 1..MaxOffers : BcLoopback(k)
    \/ BcUdpRequest
    \/ \E h \in 1..MaxUdpRequests : UsValidate(h)
    \/ \E h \in 1..MaxUdpRequests : UsSend(h)
    \/ BcTcpAccept
    \/ \E h \in 1..MaxTcpAccepts : TsHandlerRecv(h, request_line(3))
    \/ \E h \in 1..MaxTcpAccepts : TsHandlerSend(h)

\* ---------------------------------------------------------- specifications
Init == LfoInit /\ UsInit /\ UcInit /\ TcpInit /\ OrchInit /\ RtInit /\ MainInit /\ TsInit /\ UwInit /\ BcInit

SpecListen == Init /\ [][LfoNext]_vars

SpecUdpServer == Init /\ [][UsNext]_vars

SpecUdpClient == Init /\ [][UcNext]_vars

\* the worker's thread keeps running: a recvfrom that gets no datagram ends
\* by the 1 s socket timeout
SpecUdpClientLive == Init /\ [][UcNext]_vars /\ WF_vars(UcIdleTimeout)

\* the handler thread, once started, keeps running: its send loop is
\* scheduled as long as it has a chunk to send
SpecTcp == Init /\ [][TcpNext]_vars /\ WF_vars(ThSend)

SpecOrch == Init /\ [][OrchNext]_vars

SpecCodec == Init /\ [][RtNext]_vars

SpecMain == Init /\ [][MainNext]_vars

SpecTcpServer == Init /\ [][TsNext]_vars

SpecTransfer == Init /\ [][XferNext]_vars

SpecUdpWorkers == Init /\ [][UwNext]_vars

SpecServer == Init /\ [][BcNext]_vars

\* ------------------------------------------------ claims on the listener
\* an Offer by its bytes: 9 bytes, cookie ab cd dc ba, type 02
IsOfferBytes(d) ==
    /\ Len(d) = 9
    /\ d[1] = 171 /\ d[2] = 205 /\ d[3] = 220 /\ d[4] = 186
    /\ d[5] = 2

\* C5: the listener stays in WAITING on every datagram that is not a 9-byte
\* Offer with the right cookie and type, returns on the first valid Offer
\* only, and returns (sender IP, TCP port field, UDP port field) of that
\* Offer; for the server's own Offer these are SERVER_TCP_PORT and
\* SERVER_UDP_PORT.  Nothing is read after the first valid Offer.
C5_ReturnsFirstValidOffer ==
    /\ \A i \in 1..Len(lfo_log) :
          (i < Len(lfo_log) \/ lfo_pc = "WAITING") => ~IsOfferBytes(lfo_log[i].data)
    /\ lfo_pc # "DONE" => lfo_result = <<>>
    /\ lfo_pc = "DONE" =>
          /\ Len(lfo_log) > 0
          /\ LET last == lfo_log[Len(lfo_log)]
                 d    == last.data
             IN /\ IsOfferBytes(d)
                /\ lfo_result = <<last.ip, 256 * d[8] + d[9], 256 * d[6] + d[7]>>
                /\ d = offer_message =>
                      lfo_result = <<last.ip, SERVER_TCP_PORT, SERVER_UDP_PORT>>

\* the server's Offer accepted after two rejected datagrams
C5_Witness ==
    /\ lfo_pc = "DONE"
    /\ Len(lfo_log) = 3
    /\ lfo_log[3].data = offer_message
    /\ lfo_log[1].data # lfo_log[2].data

\* C6: once the socket timeout has fired with no valid Offer received, the
\* listener has left WAITING for TIMED_OUT and returned no server address.
C6_TimeoutLeavesWaiting ==
    lfo_timeouts > 0 => (lfo_pc = "TIMED_OUT" /\ lfo_result = <<>>)

\* C10: a worker that has returned (or raised) has closed its socket, and no
\* method of a closed socket is called.
C10_SocketClosedOnEveryExit ==
    /\ lfo_pc \in {"DONE", "raised"} => lfo_sock = "closed"
    /\ ~lfo_closed_use
    /\ tc_pc \in {"finished", "raised"} => tc_sock = "closed"
    /\ uc_pc \in {"finished", "raised"} => uc_sock = "closed"
    /\ th_pc = "returned" => th_sock = "closed"

\* ---------------------------------------------- claims on the UDP server
\* a Request by its bytes: 13 bytes, cookie ab cd dc ba, type 03
IsRequestBytes(d) ==
    /\ Len(d) = 13
    /\ d[1] = 171 /\ d[2] = 205 /\ d[3] = 220 /\ d[4] = 186
    /\ d[5] = 3

\* the value of a 64-bit big-endian field that starts at byte p (small values)
Field64(d, p) ==
    IF \A i \in p..(p + 4) : d[i] = 0
    THEN 65536 * d[p + 5] + 256 * d[p + 6] + d[p + 7]
    ELSE -1

\* ceil(S / 1024) as the least n with 1024 * n >= S
CeilChunks(S) == CHOOSE n \in 0..S : 1024 * n >= S /\ (n = 0 \/ 1024 * (n - 1) < S)

RECURSIVE SumPayload(_)
SumPayload(sent) ==
    IF Len(sent) = 0 THEN 0
    ELSE (Len(sent[Len(sent)].data) - 21) + SumPayload(SubSeq(sent, 1, Len(sent) - 1))

\* C3: for a valid Request of size S the handler sends the Payload datagrams
\* 0..ceil(S/1024)-1 in increasing index order, each once, each header
\* carrying total_chunks = ceil(S/1024), each payload 1024 bytes except the
\* last, which is S - 1024*(chunks-1); a handler that returns True has sent
\* all of them, S payload bytes in all (2500: 3 datagrams, the last of 452).
C3_ServerBurst ==
    \A h \in 1..Len(us_threads) :
       LET t == us_threads[h]
           sent == us_sent[h]
       IN  IsRequestBytes(t.data) =>
           LET S == Field64(t.data, 6)
               n == CeilChunks(S)
           IN  /\ Len(sent) <= n
               /\ \A k \in 1..Len(sent) :
                     LET d == sent[k].data IN
                     /\ sent[k].to = t.client_address
                     /\ Len(d) >= 21
                     /\ SubSeq(d, 1, 5) = <<171, 205, 220, 186, 4>>
                     /\ Field64(d, 6) = n
                     /\ Field64(d, 14) = k - 1
                     /\ Len(d) - 21 = IF k < n THEN 1024 ELSE S - 1024 * (n - 1)
               /\ t.result = "True" =>
                     /\ Len(sent) = n
                     /\ SumPayload(sent) = S
                     /\ S = 2500 => (Len(sent) = 3 /\ Len(sent[3].data) - 21 = 452)

\* a 2500-byte Request served to the end
C3_Witness ==
    \E h \in 1..Len(us_threads) :
       /\ us_threads[h].data = request_of(2500)
       /\ us_threads[h].result = "True"
       /\ Len(us_sent[h]) = 3

\* C8: a handler sends only if its datagram is a 13-byte Request with the
\* right cookie and type; for any other datagram it returns False having
\* sent nothing; and no step that starts or advances a handler changes the
\* state of the receive loop, which goes on to the next recvfrom.
C8_OnlyRequestsServed ==
    /\ [](\A h \in 1..Len(us_threads) :
            /\ Len(us_sent[h]) > 0 => IsRequestBytes(us_threads[h].data)
            /\ (us_threads[h].pc = "returned" /\ ~IsRequestBytes(us_threads[h].data)) =>
                  (us_threads[h].result = "False" /\ us_sent[h] = <<>>))
    /\ [][us_threads' # us_threads => us_loop' = us_loop]_vars

\* the server's own Offer is dropped and a later Request is served
C8_Witness ==
    /\ Len(us_threads) >= 2
    /\ us_threads[1].data = offer_message
    /\ us_threads[1].result = "False"
    /\ us_sent[1] = <<>>
    /\ us_threads[2].data = request_of(1024)
    /\ us_threads[2].result = "True"
    /\ Len(us_sent[2]) = 1

\* ---------------------------------------------- claims on the UDP client
\* a Payload by its bytes: 21 bytes or more, cookie ab cd dc ba, type 04
IsPayloadBytes(d) ==
    /\ Len(d) >= 21
    /\ d[1] = 171 /\ d[2] = 205 /\ d[3] = 220 /\ d[4] = 186
    /\ d[5] = 4

\* C1: the reported success_rate is exactly 100 when the loop was left with
\* received_segments = total_segment_count, lies in [0,100) (fewer segments
\* than announced, or none announced) when it was left by the idle timeout,
\* and never exceeds 100.
C1_SuccessRate ==
    uc_pc = "finished" =>
       /\ success_rate.num <= 100 * success_rate.den
       /\ uc_exit = "complete" => success_rate.num = 100 * success_rate.den
       /\ uc_exit = "idle" =>
             /\ 0 <= success_rate.num
             /\ success_rate.num < 100 * success_rate.den
             /\ (received_segments < total_segment_count \/ total_segment_count = 0)

\* C7: receiving a datagram that is not a valid Payload (shorter than 21
\* bytes, wrong cookie or wrong type) leaves received_segments and
\* total_segment_count unchanged.
C7_InvalidDiscarded ==
    [][(uc_nrecv' = uc_nrecv + 1 /\ ~IsPayloadBytes(uc_last')) =>
          UNCHANGED <<received_segments, total_segment_count>>]_vars

\* C13: the worker leaves the receive loop only by completion after a valid
\* Payload, by the idle timeout or by an I/O exception, and it is never still
\* in the loop with received_segments = total_segment_count once a datagram
\* has been received.
C13_ExitsAtEquality ==
    /\ uc_pc \in {"finished", "raised"} =>
          /\ uc_exit \in {"complete", "idle", "error"}
          /\ uc_exit = "complete" =>
                (received_segments = total_segment_count /\ IsPayloadBytes(uc_last))
    /\ (uc_pc = "recv" /\ uc_nrecv > 0) => received_segments # total_segment_count

\* the part of C13 that the code keeps: with finitely many datagrams the
\* worker always leaves the loop, through one of the three exits
\* the log of arrivals is a permutation of the burst's chunk indices: every
\* Payload of the burst once, nothing else
BurstDeliveredOnce ==
    /\ uc_segment_size >= 1
    /\ Len(uc_log) = CeilChunks(uc_segment_size)
    /\ \A k \in 0..(CeilChunks(uc_segment_size) - 1) :
          \E i \in 1..Len(uc_log) : uc_log[i] = k

\* C14: when every Payload of the burst for segment_size >= 1 has arrived
\* exactly once, in whatever order, and nothing else has, the worker has left
\* its loop through the completion branch with received_segments =
\* total_segment_count = ceil(segment_size / 1024) and success rate 100
C14_PermutationCompletes ==
    BurstDeliveredOnce =>
        /\ uc_pc = "finished"
        /\ uc_exit = "complete"
        /\ received_segments = CeilChunks(uc_segment_size)
        /\ total_segment_count = CeilChunks(uc_segment_size)
        /\ success_rate.num = 100 * success_rate.den

\* a burst of three chunks arrived out of order and the transfer completed
C14_Witness ==
    /\ BurstDeliveredOnce
    /\ uc_segment_size = 2500
    /\ uc_log = <<2, 0, 1>>
    /\ uc_exit = "complete"
    /\ success_rate.num = 100 * success_rate.den

UcTerminates ==
    /\ (uc_pc = "recv") ~> (uc_pc \in {"finished", "raised"})
    /\ [](uc_pc \in {"finished", "raised"} =>
            /\ uc_exit \in {"complete", "idle", "error"}
            /\ uc_exit = "complete" => received_segments = total_segment_count)

\* ------------------------------------------------ claims on the TCP transfer
RECURSIVE SumSeq(_)
SumSeq(q) == IF Len(q) = 0 THEN 0 ELSE q[Len(q)] + SumSeq(SubSeq(q, 1, Len(q) - 1))

\* C2: for a request parsed as a positive N the handler writes chunks of 1
\* to 1024 bytes, never more than N bytes in all, exactly N when no I/O
\* error occurs, the send loop terminates, and without an I/O error the
\* connection is closed only after the N-th byte.
C2_ExactlyN ==
    /\ [](/\ \A i \in 1..Len(th_writes) : th_writes[i] >= 1 /\ th_writes[i] <= 1024
          /\ SumSeq(th_writes) = total_bytes_sent
          /\ total_bytes_sent <= file_size_bytes
          /\ th_result = "True" => (file_size_bytes > 0 /\ total_bytes_sent = file_size_bytes)
          /\ (th_pc = "returned" /\ file_size_bytes > 0 /\ ~th_error) => th_result = "True"
          /\ (th_sock = "closed" /\ file_size_bytes > 0 /\ ~th_error) =>
                total_bytes_sent = file_size_bytes)
    /\ (th_pc = "send") ~> (th_pc = "returned" /\ th_sock = "closed")

\* 2500 bytes sent as 1024 + 1024 + 452
C2_Witness ==
    /\ th_result = "True"
    /\ file_size_bytes = 2500
    /\ th_writes = <<1024, 1024, 452>>
    /\ th_sock = "closed"

\* C9: the server streams exactly the segment_size the client asked for, and
\* without I/O errors the client leaves its read loop with
\* bytes_receive = segment_size, however the request line is split.
C9_ClientGetsSegment ==
    /\ th_result = "True" => total_bytes_sent = tc_segment_size
    /\ (tc_pc = "finished" /\ ~th_error) => bytes_receive = tc_segment_size

\* ---------------------------------------------- claims on the orchestrator
Ended(w) == threads[w].state \in {"finished", "error"}

\* C4: exactly tcp_connections TCP workers and udp_connections UDP workers
\* are started, all before the first join; the completion message comes only
\* after every worker has ended, also when workers end with an error; and a
\* worker that ends, with or without an error, changes no sibling.
C4_JoinBarrier ==
    /\ [](/\ NumKind("tcp") <= tcp_connections
          /\ NumKind("udp") <= udp_connections
          /\ Len(threads) = NumKind("tcp") + NumKind("udp")
          /\ orch_pc \in {"join", "done"} =>
                /\ NumKind("tcp") = tcp_connections
                /\ NumKind("udp") = udp_connections
                /\ Len(threads) = tcp_connections + udp_connections
          /\ orch_pc \in {"start", "spawn_tcp", "spawn_udp"} => orch_joined = 0
          /\ \A w \in 1..orch_joined : Ended(w)
          /\ orch_pc = "done" =>
                (orch_joined = Len(threads) /\ \A w \in 1..Len(threads) : Ended(w)))
    /\ [][\A w \in 1..Len(threads) :
            /\ (Ended(w) /\ orch_pc # "start") => threads'[w] = threads[w]
            /\ (threads'[w] # threads[w]) =>
                  \A v \in 1..Len(threads) : v # w => threads'[v] = threads[v]]_vars

\* 3 TCP and 2 UDP workers, one of them ended with an error, all joined
C4_Witness ==
    /\ orch_pc = "done"
    /\ tcp_connections = 3
    /\ udp_connections = 2
    /\ Len(threads) = 5
    /\ \E w \in 1..5 : threads[w].state = "error"
    /\ \E w \in 1..5 : threads[w].state = "finished"

\* ------------------------------------------------ claims on the Offer codec
\* C11: decoding a 9-byte Offer string with '!IBHH' and encoding the fields
\* again with '!IBHH' gives back the same bytes; and decoding the encoding of
\* (cookie, type, udp_port, tcp_port) gives back the same four fields in the
\* same order.
C11_OfferRoundTrip ==
    /\ rt_pc = "reencoded" => rt_out = rt_bytes
    /\ rt_pc = "redecoded" => (Len(rt_out) = 9 /\ rt_back = rt_fields)

\* the server's ports encoded and decoded; an Offer string with two
\* different port fields decoded and encoded
C11_Witness ==
    \/ /\ rt_pc = "redecoded"
       /\ rt_fields = <<MAGIC_COOKIE, OFFER_TYPE, SERVER_UDP_PORT, SERVER_TCP_PORT>>
    \/ /\ rt_pc = "reencoded"
       /\ rt_bytes = MAGIC_COOKIE \o <<2, 58, 152, 1, 255>>

\* ------------------------------------------------- claims on the client run
\* typed lines that are not a positive integer: "0", "-5", "-2", "abc", "x",
\* "1.5", ""
BadLines == { <<48>>, <<45, 53>>, <<45, 50>>, <<97, 98, 99>>, <<120>>, <<49, 46, 53>>, <<>> }

HasBadLine == \E i \in 1..Len(main_inputs) : main_inputs[i] \in BadLines

\* C12: a line that is non-numeric or not a positive integer ends
\* get_user_input at once (no further prompt), main exits without parameters,
\* and no transfer worker is ever started; workers are started only with
\* file_size, tcp_connections and udp_connections all >= 1.
C12_InvalidInputExits ==
    /\ \A i \in 1..Len(main_inputs) : main_inputs[i] \in BadLines => i = Len(main_inputs)
    /\ HasBadLine => (main_pc = "exited" /\ params = <<>>)
    /\ main_pc = "exited" => (threads = <<>> /\ orch_pc = "start")
    /\ (threads # <<>> \/ orch_pc # "start") =>
          /\ ~HasBadLine
          /\ Len(main_inputs) = 3
          /\ Len(params) = 3
          /\ params[1] >= 1 /\ params[2] >= 1 /\ params[3] >= 1
          /\ tcp_connections = params[2]
          /\ udp_connections = params[3]

\* a rejected second line: one accepted value, no third prompt, no worker
C12_Witness ==
    /\ main_pc = "exited"
    /\ Len(main_inputs) = 2
    /\ main_inputs[2] = <<48>>
    /\ threads = <<>>

WorkersOf(kind) == {w \in 1..Len(threads) : threads[w].kind = kind}

RECURSIVE SumRequested(_, _)
SumRequested(kind, n) ==
    IF n = 0 THEN 0
    ELSE SumRequested(kind, n - 1) +
         (IF threads[n].kind = kind /\ worker_segment[n] # -1 THEN worker_segment[n] ELSE 0)

AllRequested(kind) == \A w \in WorkersOf(kind) : worker_segment[w] # -1

SegmentSizing(kind, k) ==
    LET f == params[1]
        q == CHOOSE x \in 0..f : x * k <= f /\ f < (x + 1) * k
    IN  /\ \A w \in WorkersOf(kind) : worker_segment[w] \in {-1, q}
        /\ SumRequested(kind, Len(threads)) <= f
        /\ (Cardinality(WorkersOf(kind)) = k /\ AllRequested(kind)) =>
              /\ SumRequested(kind, Len(threads)) = k * q
              /\ k * q <= f
              /\ k * q > f - k
              /\ SumRequested(kind, Len(threads)) + (f % k) = f

\* C16: every worker of a kind requests segment_size = file_size // k, k being
\* the connection count of its kind; the k requests add up to
\* k * (file_size // k), at most file_size and more than file_size - k, and
\* the remainder file_size mod k is requested by no worker.
C16_SegmentSizing ==
    threads # <<>> =>
       /\ SegmentSizing("tcp", tcp_connections)
       /\ SegmentSizing("udp", udp_connections)

\* file_size 7 over 2 TCP workers (3 each) and 3 UDP workers (2 each)
C16_Witness ==
    /\ Len(params) = 3
    /\ params[1] = 7
    /\ tcp_connections = 2
    /\ udp_connections = 3
    /\ Len(threads) = 5
    /\ \A w \in 1..5 : worker_segment[w] = IF w <= 2 THEN 3 ELSE 2

\* ------------------------------------------- claims on the TCP server threads
\* first reads that are empty, non-numeric or not a positive integer
InvalidFirstReads ==
    { <<>>, <<97, 98, 99, 10>>, <<48, 10>>, <<45, 53, 10>>, <<32, 10>> }

\* the N a valid first read asks for
RequestedN(read) == IF read = <<51, 10>> THEN 3 ELSE 1030

HandlerStepOf(h) ==
    /\ h <= Len(ts_handlers')
    /\ ts_handlers'[h] # ts_handlers[h]

\* C15: a handler whose first read is empty, non-numeric or not a positive
\* integer sends zero bytes and closes its connection; a handler that returned
\* True sent exactly the N of its own first read, whatever the other handlers
\* did; and a step of one handler (an error included) changes neither the
\* accept loop nor any other handler
C15_HandlerIsolation ==
    /\ [](\A h \in 1..Len(ts_handlers) :
            /\ (ts_handlers[h].pc # "recv" /\ ~ts_handlers[h].error
                  /\ ts_handlers[h].data \in InvalidFirstReads) =>
                  /\ ts_handlers[h].pc = "returned"
                  /\ ts_handlers[h].result = "False"
                  /\ ts_handlers[h].total_bytes_sent = 0
                  /\ ts_handlers[h].writes = <<>>
                  /\ ts_handlers[h].sock = "closed"
            /\ ts_handlers[h].error =>
                  /\ ts_handlers[h].pc = "returned"
                  /\ ts_handlers[h].sock = "closed"
            /\ ts_handlers[h].result = "True" =>
                  /\ ts_handlers[h].data \notin InvalidFirstReads
                  /\ ts_handlers[h].total_bytes_sent = RequestedN(ts_handlers[h].data)
                  /\ SumSeq(ts_handlers[h].writes) = RequestedN(ts_handlers[h].data)
                  /\ ts_handlers[h].sock = "closed"
            /\ (ts_handlers[h].pc = "send") =>
                  ts_handlers[h].total_bytes_sent < RequestedN(ts_handlers[h].data))
    /\ [][\A h \in 1..Len(ts_handlers) :
            HandlerStepOf(h) =>
               /\ ts_loop' = ts_loop
               /\ Len(ts_handlers') = Len(ts_handlers)
               /\ \A g \in 1..Len(ts_handlers) : g # h => ts_handlers'[g] = ts_handlers[g]]_vars

\* the first handler got an invalid request, the second had an I/O error while
\* sending, and the third, accepted after both had failed, sent its 1030 bytes
C15_Witness ==
    /\ ts_loop = "accepting"
    /\ Len(ts_handlers) = 3
    /\ ts_handlers[1].data \in InvalidFirstReads /\ ts_handlers[1].result = "False"
    /\ ts_handlers[1].total_bytes_sent = 0 /\ ts_handlers[1].sock = "closed"
    /\ ts_handlers[2].error /\ ts_handlers[2].total_bytes_sent = 1024
    /\ ts_handlers[3].failed_before = 2
    /\ ts_handlers[3].result = "True"
    /\ ts_handlers[3].writes = <<1024, 6>>

WorkerCounters(w) == <<w.received_segments, w.total_segment_count>>

\* C18: every datagram a handler has sent went to the address of the Request
\* the handler was started for; a worker's counters change only in a step in
\* which that worker receives a datagram addressed to its own socket, and
\* that step leaves the other workers as they were; a step of the server
\* changes no worker; so the total a worker has been told is that of its own
\* burst, whatever the other transfers are
C18_WorkersIsolated ==
    /\ [](\A h \in 1..Len(us_sent) : \A k \in 1..Len(us_sent[h]) :
             us_sent[h][k].to = us_threads[h].client_address)
    /\ [](\A a \in ClientAddrs :
             /\ uw[a].total_segment_count \in {0, CeilChunks(uw[a].segment_size)}
             /\ uw[a].received_segments = uw[a].nrecv
             /\ uw[a].nrecv > 0 =>
                   us_sent[uw[a].last_from[1]][uw[a].last_from[2]].to = a)
    /\ [][\A a \in ClientAddrs :
             WorkerCounters(uw'[a]) # WorkerCounters(uw[a]) =>
                /\ uw[a].pc # "start" => uw'[a].nrecv = uw[a].nrecv + 1
                /\ \A b \in ClientAddrs : b # a => uw'[b] = uw[b]
                /\ us_sent' = us_sent /\ us_threads' = us_threads]_vars
    /\ [][(us_sent' # us_sent \/ us_threads' # us_threads) => uw' = uw]_vars

\* two transfers of different length ran side by side on the one server
\* socket and each worker completed with the count of its own burst
C18_Witness ==
    /\ Len(us_threads) = 2
    /\ us_threads[1].client_address # us_threads[2].client_address
    /\ \A h \in 1..2 : us_threads[h].result = "True"
    /\ \E a, b \in ClientAddrs :
          /\ uw[a].segment_size = 3 /\ uw[b].segment_size = 1030
          /\ uw[a].exit = "complete" /\ uw[b].exit = "complete"
          /\ WorkerCounters(uw[a]) = <<1, 1>>
          /\ WorkerCounters(uw[b]) = <<2, 2>>

\* ------------------------------------------- claims on the Offer broadcaster
\* the Offer by its bytes: ab cd dc ba, 02, 15000 = 3a 98, 16000 = 3e 80
OfferBytes == <<171, 205, 220, 186, 2, 58, 152, 62, 128>>

\* C19: every Offer sent is the one 9-byte message that was built before the
\* loop and is never rebuilt; two consecutive sends are at least one slept
\* second apart; once a sendto has raised the broadcaster is stopped and
\* sends nothing more; and no step of the broadcaster, its failure included,
\* changes the accept loop, the UDP receive loop or any of their handlers
C19_Broadcaster ==
    /\ [](\A k \in 1..Len(bc_sent) :
             /\ bc_sent[k].data = OfferBytes
             /\ bc_sent[k].data = bc_offer
             /\ bc_sent[k].to = <<"<broadcast>", 15000>>
             /\ k > 1 => bc_sent[k].at >= bc_sent[k - 1].at + 1)
    /\ [][bc_offer # <<>> => bc_offer' = bc_offer]_vars
    /\ [](bc_failed => bc_pc = "stopped")
    /\ [][bc_failed => (bc_sent' = bc_sent /\ bc_pc' = "stopped")]_vars
    /\ [][bc_vars' # bc_vars => (ts_vars' = ts_vars /\ us_vars' = us_vars)]_vars

\* two Offers went out a second apart, the third sendto raised, and after
\* that a TCP connection was accepted and sent its 3 bytes and a Request
\* was received and answered with its Payload
C19_Witness ==
    /\ bc_failed /\ bc_pc = "stopped"
    /\ Len(bc_sent) = 2
    /\ bc_sent[2].at = bc_sent[1].at + 1
    /\ Len(ts_handlers) > bc_snapshot[1]
    /\ ts_handlers[Len(ts_handlers)].result = "True"
    /\ ts_handlers[Len(ts_handlers)].writes = <<3>>
    /\ Len(us_threads) > bc_snapshot[2]
    /\ us_threads[Len(us_threads)].result = "True"
    /\ Len(us_sent[Len(us_threads)]) = 1
    /\ us_sent[Len(us_threads)][1].to = WorkerAddr

====
